---- MODULE Spec2Model ----
(***************************************************************************)
(* State-machine model of the crop tool in src/main.py: the Canvas pointer *)
(* handlers (draft rectangle -> crop region), the crop-mode toggle, the    *)
(* folder loader and the PNG export loop.                                  *)
(*                                                                         *)
(* Scene coordinates are reals in the program (QPointF / QRectF).  They    *)
(* are modelled as integers counted in 1/Scale scene units, so that the    *)
(* int() truncation of the export and the strict "> 20" test of the commit *)
(* both see fractional values.                                             *)
(***************************************************************************)
EXTENDS Integers, Sequences, FiniteSets, TLC

\* ---------------------------------------------------------------- bounds
\* Sub-unit resolution of a scene coordinate (a coordinate v stands for v/Scale).
Scale == 2
\* Farthest (in 1/Scale units, right and down) a region is dragged from where it was drawn.
MaxDrag == 1
\* Largest number of rectangle items alive in the scene at once.
MaxItems == 2

\* ------------------------------------------------------ program constants
\* rect.width() > 20 and rect.height() > 20
MinSize == 20
\* QPen(QColor("#ffb400"), 2): the pen width of a committed region
RegionPenWidth == 2
\* QSpinBox range and start value of w_edit / h_edit
SpinMin == 100
SpinMax == 4000
SpinStart == 1200

\* Python's None where a point or a pair is expected, where a bitmap is
\* expected, and where an item is expected.
None == <<>>
NoImage == [folder |-> "", file |-> <<"", "">>]
NoItem == 0

\* ------------------------------------------------------------- geometry
Pt(x, y) == <<x, y>>

\* Pointer positions delivered by mapToScene(e.pos()), in 1/Scale units.  From
\* Corner to Exact the span is exactly MinSize wide; from Corner to Beyond it is
\* just over MinSize both ways, and runs right in x but up in y (or the reverse).
Corner == Pt(0, MinSize * Scale + 1)
Exact == Pt(MinSize * Scale, 0)
Beyond == Pt(MinSize * Scale + 1, 0)
Points == {Corner, Exact, Beyond}

\* QRectF(topLeft, bottomRight): no ordering is imposed on the corners.
QRectF(p, q) == [x1 |-> p[1], y1 |-> p[2], x2 |-> q[1], y2 |-> q[2]]

Width(r) == r.x2 - r.x1
Height(r) == r.y2 - r.y1

\* (variant: the rectangle used as constructed, .normalized() left out)
NotNormalized(r) == r

\* QRectF.normalized(): a negative width/height swaps the two edges.
Normalized(r) ==
  [x1 |-> IF r.x2 < r.x1 THEN r.x2 ELSE r.x1,
   y1 |-> IF r.y2 < r.y1 THEN r.y2 ELSE r.y1,
   x2 |-> IF r.x2 < r.x1 THEN r.x1 ELSE r.x2,
   y2 |-> IF r.y2 < r.y1 THEN r.y1 ELSE r.y2]

\* (variant: the size test written with >= instead of >)
BigEnoughInclusive(r) == Width(r) >= MinSize * Scale /\ Height(r) >= MinSize * Scale

\* The size test of mouseReleaseEvent.
BigEnough(r) == Width(r) > MinSize * Scale /\ Height(r) > MinSize * Scale

\* A rectangle item of the scene.
DraftItem(r) == [rect |-> r, pos |-> Pt(0, 0), pen |-> "dash", penw |-> RegionPenWidth, movable |-> FALSE]
RegionItem(r) == [rect |-> r, pos |-> Pt(0, 0), pen |-> "solid", penw |-> RegionPenWidth, movable |-> TRUE]

\* QGraphicsRectItem.sceneBoundingRect(): the rectangle widened by half the
\* pen width on every side, translated by the item's position.
SceneBoundingRect(it) ==
  LET half == (it.penw * Scale) \div 2 IN
  [x1 |-> it.rect.x1 - half + it.pos[1],
   y1 |-> it.rect.y1 - half + it.pos[2],
   x2 |-> it.rect.x2 + half + it.pos[1],
   y2 |-> it.rect.y2 + half + it.pos[2]]

Contains(r, p) == r.x1 <= p[1] /\ p[1] <= r.x2 /\ r.y1 <= p[2] /\ p[2] <= r.y2

\* Python int() on a float: truncation toward zero.
PyInt(v) == IF v >= 0 THEN v \div Scale ELSE -((-v) \div Scale)

\* The box handed to base_image.crop(): (left, top, right, bottom) in pixels.
CropBox(it) ==
  LET b == SceneBoundingRect(it) IN
  <<PyInt(b.x1), PyInt(b.y1), PyInt(b.x2), PyInt(b.y2)>>

\* ------------------------------------------------------------ file names
\* A directory entry is <<stem, extension>>; a path is [folder, file].
FolderNames == {"A", "B"}

ListDir(folder) ==
  CASE folder = "A" -> { <<"a", "PNG">>, <<"broken", "jpeg">>, <<"notes", "txt">> }
    [] folder = "B" -> { <<"readme", "md">>, <<"png", "">> }

\* str.lower() on the extensions that occur.
Lower(ext) == IF ext = "PNG" THEN "png" ELSE ext

\* f.lower().endswith((".jpg", ".png", ".jpeg"))
IsImageName(f) == Lower(f[2]) \in {"jpg", "png", "jpeg"}

Join(folder, f) == [folder |-> folder, file |-> f]

\* os.path.splitext(os.path.basename(path))[0]
Stem(path) == path.file[1]

\* Files Image.open() can decode; the others raise.
Decodable(path) == path.file[1] # "broken"

\* All orders in which os.listdir may enumerate a set of entries.
RECURSIVE Orderings(_)
Orderings(S) ==
  IF S = {} THEN { <<>> }
  ELSE UNION { { <<x>> \o s : s \in Orderings(S \ {x}) } : x \in S }

\* ----------------------------------------------------------------- state
VARIABLES
  images,      \* MainWindow.images: sequence of paths
  index,       \* MainWindow.index (0-based)
  base_image,  \* MainWindow.base_image: path of the decoded bitmap, or NoImage
  crop_rects,  \* MainWindow.crop_rects: sequence of item ids
  crop_mode,   \* MainWindow.crop_mode
  w_edit,      \* value of the width spin box
  h_edit,      \* value of the height spin box
  wh,          \* the (w, h) the last handler got from normalize(), or None
  start_pos,   \* Canvas.start_pos: a point, or None
  temp_item,   \* Canvas.temp_item: an item id, or NoItem
  scene,       \* rectangle items alive in the QGraphicsScene: id -> item
  pointer,     \* scene position of the mouse pointer
  grab,        \* item held by the default (super) mouse handling, or NoItem
  made,        \* directories the last handler passed to os.makedirs
  written,     \* PNG files the last handler saved: <<stem, n>> -> content
  last         \* <<handler, outcome>> of the last event handled (a load adds
               \* the number of regions it cleared)

vars == <<images, index, base_image, crop_rects, crop_mode, w_edit, h_edit, wh,
          start_pos, temp_item, scene, pointer, grab, made, written, last>>

session == <<images, index, base_image, crop_rects, crop_mode, w_edit, h_edit>>
canvas == <<start_pos, temp_item, scene, grab>>

\* The program never reads output/ back (makedirs has exist_ok, save overwrites),
\* so the disk is modelled by what each handler adds to it.  A handler that is
\* not the export makes no directory, saves no file and calls no normalize().
NoFiles == [k \in {} |-> None]
NoOutput == made' = {} /\ written' = NoFiles /\ wh' = None

ItemIds == 1 .. MaxItems

Alive(id) == id \in DOMAIN scene

FreshId == CHOOSE id \in ItemIds : ~Alive(id) /\ \A j \in ItemIds : j < id => Alive(j)

AddItem(sc, id, it) == [j \in DOMAIN sc \cup {id} |-> IF j = id THEN it ELSE sc[j]]
RemoveItem(sc, id) == [j \in DOMAIN sc \ {id} |-> sc[j]]

EmptyScene == [j \in {} |-> NoItem]
\* MainWindow.__init__ and Canvas.__init__
Init ==
  /\ images = <<>>
  /\ index = 0
  /\ base_image = NoImage
  /\ crop_rects = <<>>
  /\ crop_mode = FALSE
  /\ w_edit = SpinStart
  /\ h_edit = SpinStart
  /\ wh = None
  /\ start_pos = None
  /\ temp_item = NoItem
  /\ scene = EmptyScene
  /\ pointer = Corner
  /\ grab = NoItem
  /\ made = {}
  /\ written = NoFiles
  /\ last = <<"init", "ok">>


\* ------------------------------------------------------- Canvas handlers
\* super().mousePressEvent(e): a left press on a movable item makes the scene
\* hold it for dragging (which of several stacked items is not modelled: any).
SuperPress(b) ==
  LET under == { id \in DOMAIN scene :
                   scene[id].movable /\ Contains(SceneBoundingRect(scene[id]), pointer) } IN
  /\ IF b = "Left" /\ under # {}
       THEN grab' \in under
       ELSE grab' = (IF b = "Left" THEN NoItem ELSE grab)
  /\ UNCHANGED <<start_pos, temp_item, scene>>

\* Canvas.mousePressEvent
mousePressEvent(b) ==
  /\ IF crop_mode /\ b = "Left"
       THEN /\ Cardinality(DOMAIN scene) < MaxItems
            /\ start_pos' = pointer
            /\ temp_item' = FreshId
            /\ scene' = AddItem(scene, FreshId, DraftItem(QRectF(pointer, pointer)))
            /\ grab' = grab
            /\ last' = <<"press", "draft">>
       ELSE /\ SuperPress(b)
            /\ last' = <<"press", "super">>
  /\ NoOutput
  /\ UNCHANGED <<session, pointer>>

\* super().mouseMoveEvent(e): a held movable item follows the pointer.
SuperMove(p) ==
  IF grab # NoItem /\ Alive(grab)
    THEN LET np == Pt(scene[grab].pos[1] + p[1] - pointer[1],
                      scene[grab].pos[2] + p[2] - pointer[2]) IN
         /\ \A i \in 1..2 : np[i] >= 0 /\ np[i] <= MaxDrag
         /\ scene' = [scene EXCEPT ![grab].pos = np]
    ELSE scene' = scene

\* Canvas.mouseMoveEvent; the pointer is at p when the event arrives.
mouseMoveEvent(p) ==
  /\ p # pointer
  /\ pointer' = p
  /\ IF temp_item # NoItem
       THEN IF Alive(temp_item)
              THEN /\ scene' = [scene EXCEPT ![temp_item].rect = Normalized(QRectF(start_pos, p))]
                   /\ last' = <<"move", "resize">>
              ELSE \* the C++ item was deleted by scene.clear(); PySide marks the
                   \* wrapper invalid and setRect raises RuntimeError
                   /\ scene' = scene
                   /\ last' = <<"move", "RuntimeError">>
       ELSE /\ SuperMove(p)
            /\ last' = <<"move", "super">>
  /\ NoOutput
  /\ UNCHANGED <<session, start_pos, temp_item, grab>>

\* Canvas.mouseReleaseEvent
mouseReleaseEvent ==
  /\ IF temp_item # NoItem
       THEN IF Alive(temp_item)
              THEN LET rect == scene[temp_item].rect IN
                   IF BigEnough(rect)
                     THEN /\ scene' = AddItem(RemoveItem(scene, temp_item), temp_item, RegionItem(rect))
                          /\ crop_rects' = Append(crop_rects, temp_item)
                          /\ temp_item' = NoItem
                          /\ grab' = grab
                          /\ last' = <<"release", "commit">>
                     ELSE /\ scene' = RemoveItem(scene, temp_item)
                          /\ crop_rects' = crop_rects
                          /\ temp_item' = NoItem
                          /\ grab' = grab
                          /\ last' = <<"release", "discard">>
              ELSE \* temp_item.rect() on a deleted item raises before anything changes
                   /\ UNCHANGED <<scene, crop_rects, temp_item, grab>>
                   /\ last' = <<"release", "RuntimeError">>
       ELSE /\ grab' = NoItem
            /\ UNCHANGED <<scene, crop_rects, temp_item>>
            /\ last' = <<"release", "super">>
  /\ NoOutput
  /\ UNCHANGED <<images, index, base_image, crop_mode, w_edit, h_edit, start_pos, pointer>>

\* ------------------------------------------------------------- controls
\* btn_crop.clicked: setattr(self, 'crop_mode', not self.crop_mode)
toggle_crop_mode ==
  /\ crop_mode' = ~crop_mode
  /\ last' = <<"toggle", "ok">>
  /\ NoOutput
  /\ UNCHANGED <<images, index, base_image, crop_rects, w_edit, h_edit, canvas, pointer>>

\* w_edit / h_edit edited by the user (QSpinBox keeps the value in its range).
setValue(w, h) ==
  /\ w >= SpinMin /\ w <= SpinMax /\ h >= SpinMin /\ h <= SpinMax
  /\ <<w, h>> # <<w_edit, h_edit>>
  /\ w_edit' = w
  /\ h_edit' = h
  /\ last' = <<"setValue", "ok">>
  /\ NoOutput
  /\ UNCHANGED <<images, index, base_image, crop_rects, crop_mode, canvas, pointer>>

\* --------------------------------------------------------------- loading
\* (variant: the region list not cleared by a load)
KeptRects(rects) == SelectSeq(rects, LAMBDA id : TRUE)

\* self.crop_rects.clear()
ClearedRects(rects) == <<>>

\* MainWindow.load_image
load_image(imgs, idx) ==
  /\ scene' = EmptyScene
  /\ grab' = NoItem
  /\ crop_rects' = ClearedRects(crop_rects)
  /\ IF Decodable(imgs[idx + 1])
       THEN /\ base_image' = imgs[idx + 1]
            /\ last' = <<"load_image", "ok", Len(crop_rects)>>
       ELSE \* Image.open raises: the scene and the regions are already cleared
            /\ base_image' = base_image
            /\ last' = <<"load_image", "DecodeError", Len(crop_rects)>>
  /\ UNCHANGED <<start_pos, temp_item>>

\* self.images = [...] for the chosen folder, in one of listdir's orders
ScanFolder(folder) ==
  LET names == { f \in ListDir(folder) : IsImageName(f) } IN
  { [i \in 1..Len(o) |-> Join(folder, o[i])] : o \in Orderings(names) }

\* MainWindow.open_folder; folder = "" when the dialog is cancelled.
open_folder(folder) ==
  /\ IF folder = ""
       THEN /\ UNCHANGED <<images, index, base_image, crop_rects, canvas>>
            /\ last' = <<"open_folder", "cancel">>
       ELSE \E imgs \in ScanFolder(folder) :
            /\ images' = imgs
            /\ IF imgs = <<>>
                 THEN /\ UNCHANGED <<index, base_image, crop_rects, canvas>>
                      /\ last' = <<"open_folder", "No images found">>
                 ELSE /\ index' = 0
                      /\ load_image(imgs, 0)
  /\ NoOutput
  /\ UNCHANGED <<crop_mode, w_edit, h_edit, pointer>>

\* ------------------------------------------------------------ processing
\* (variant: odd values rounded up instead of down)
normalizeUp(w, h) == <<w + (w % 2), h + (h % 2)>>

\* MainWindow.normalize
normalize(w, h) == <<w - (w % 2), h - (h % 2)>>

\* One pass of the loop body of process_images for region item `it`.
Processed(it, circle, resize, enhance, size) ==
  LET box == CropBox(it)
      crop == [src |-> base_image, box |-> box, mode |-> "RGBA", alpha |-> "source",
               size |-> <<box[3] - box[1], box[4] - box[2]>>]
      masked == IF circle THEN [crop EXCEPT !.alpha = "ellipse"] ELSE crop
      resized == IF resize THEN [masked EXCEPT !.size = size] ELSE masked
  IN IF enhance THEN [resized EXCEPT !.mode = "RGB", !.alpha = "none"] ELSE resized

OutRoot == <<"output">>
OutDir(name) == <<"output", name>>

\* i of enumerate(self.crop_rects, 1) for the k-th region
FileNumber(k) == k

\* (variant: the early return for an empty region list left out)
NeverEmpty(rects) == FALSE

\* `if not self.crop_rects`
NoCropZones(rects) == rects = <<>>

\* MainWindow.process_images; the three check boxes are read when it runs.
process_images(circle, resize, enhance) ==
  /\ IF NoCropZones(crop_rects)
       THEN /\ made' = {}
            /\ written' = NoFiles
            /\ wh' = None
            /\ last' = <<"export", "No crop zones">>
       ELSE IF index + 1 > Len(images)
         THEN \* self.images[self.index] raises after output/ was made
              /\ made' = {OutRoot}
              /\ written' = NoFiles
              /\ wh' = None
              /\ last' = <<"export", "IndexError">>
         ELSE LET name == Stem(images[index + 1]) IN
              /\ made' = {OutRoot, OutDir(name)}
              /\ IF base_image = NoImage
                   THEN \* None.crop raises on the first region
                        /\ written' = NoFiles
                        /\ wh' = None
                        /\ last' = <<"export", "AttributeError">>
                   ELSE LET size == normalize(w_edit, h_edit)
                            new == { <<name, FileNumber(k)>> : k \in 1..Len(crop_rects) } IN
                        /\ wh' = IF resize THEN size ELSE None
                        /\ written' = [f \in new |->
                                         Processed(scene[crop_rects[f[2]]],
                                                   circle, resize, enhance, size)]
                        /\ last' = <<"export", "Saved">>
  /\ UNCHANGED <<session, canvas, pointer>>

\* ----------------------------------------------------------- the program
Next ==
  \/ \E b \in {"Left", "Right"} : mousePressEvent(b)
  \/ \E p \in Points : mouseMoveEvent(p)
  \/ mouseReleaseEvent
  \/ toggle_crop_mode
  \/ \E folder \in FolderNames \cup {""} : open_folder(folder)
  \/ \E circle \in BOOLEAN, resize \in BOOLEAN, enhance \in BOOLEAN :
       process_images(circle, resize, enhance)

Spec == Init /\ [][Next]_vars

\* ------------------------------------------- normalize() over its range
\* Spin box values at the edge of the range and in the middle of it.
SpinEdge == {SpinMin, 800, SpinMax}

\* Values typed into the spin boxes.
SpinSample == {SpinMin, SpinStart + 1, SpinMax}

\* A session with folder A open, one region drawn from Corner to Beyond, and
\* the spin boxes set anywhere in their range.
InitNormalize ==
  /\ images = <<Join("A", <<"a", "PNG">>), Join("A", <<"broken", "jpeg">>)>>
  /\ index = 0
  /\ base_image = Join("A", <<"a", "PNG">>)
  /\ crop_rects = <<1>>
  /\ crop_mode = TRUE
  /\ \E v \in SpinMin .. SpinMax, e \in SpinEdge :
       \/ w_edit = v /\ h_edit = e
       \/ w_edit = e /\ h_edit = v
  /\ wh = None
  /\ start_pos = Corner
  /\ temp_item = NoItem
  /\ scene = AddItem(EmptyScene, 1, RegionItem(Normalized(QRectF(Corner, Beyond))))
  /\ pointer = Beyond
  /\ grab = NoItem
  /\ made = {}
  /\ written = NoFiles
  /\ last = <<"release", "commit">>

NextNormalize ==
  \/ \E w \in SpinSample, h \in SpinSample : setValue(w, h)
  \/ \E circle \in BOOLEAN, resize \in BOOLEAN, enhance \in BOOLEAN :
       process_images(circle, resize, enhance)

SpecNormalize == InitNormalize /\ [][NextNormalize]_vars

\* ================================================================ claims
Min(a, b) == IF a < b THEN a ELSE b
Max(a, b) == IF a < b THEN b ELSE a

\* The rectangle spanning two points, with non-negative width and height.
Span(p, q) == [x1 |-> Min(p[1], q[1]), y1 |-> Min(p[2], q[2]),
               x2 |-> Max(p[1], q[1]), y2 |-> Max(p[2], q[2])]

\* A pointer release arrives while a live draft rectangle is in the scene.
ReleaseOfDraft == last'[1] = "release" /\ temp_item # NoItem /\ Alive(temp_item)

\* The rectangles of the dashed (draft) items in the scene.
DraftIds == { id \in DOMAIN scene : scene[id].pen = "dash" }
DraftRects == { <<id, scene[id].rect>> : id \in DraftIds }

\* C1: a draft that is at most 20 units wide or at most 20 units high when the
\* pointer is released adds no region: crop_rects is the same before and after,
\* the draft item leaves the scene, the canvas is idle again, and no error is
\* reported.
C1_SmallDraftDiscarded ==
  [][ (/\ ReleaseOfDraft
       /\ \/ Width(scene[temp_item].rect) <= MinSize * Scale
          \/ Height(scene[temp_item].rect) <= MinSize * Scale)
      => /\ crop_rects' = crop_rects
         /\ temp_item \notin DOMAIN scene'
         /\ DOMAIN scene' = DOMAIN scene \ {temp_item}
         /\ temp_item' = NoItem
         /\ last'[2] # "RuntimeError" ]_vars

\* C1 witness: a draft exactly 20 units wide (and more than 20 high) was released
\* and dropped.
C1_Witness ==
  /\ last = <<"release", "discard">>
  /\ start_pos = Corner
  /\ pointer = Exact
  /\ temp_item = NoItem

\* C2: while a draft is live its rectangle is the span of the press anchor and
\* the last pointer position, with non-negative width and height whatever the
\* drag direction; and a release of a draft more than 20 units wide and high
\* appends exactly one region, at the end of crop_rects, whose rectangle is that
\* span, leaving every earlier region as it was.
C2_BigDraftCommitted ==
  [][ /\ (temp_item' # NoItem /\ temp_item' \in DOMAIN scene')
         => scene'[temp_item'].rect = Span(start_pos', pointer')
      /\ (/\ ReleaseOfDraft
          /\ Width(Span(start_pos, pointer)) > MinSize * Scale
          /\ Height(Span(start_pos, pointer)) > MinSize * Scale)
         => /\ Len(crop_rects') = Len(crop_rects) + 1
            /\ SubSeq(crop_rects', 1, Len(crop_rects)) = crop_rects
            /\ \A k \in 1 .. Len(crop_rects) :
                 /\ crop_rects'[Len(crop_rects')] # crop_rects[k]
                 /\ scene'[crop_rects[k]] = scene[crop_rects[k]]
            /\ crop_rects'[Len(crop_rects')] \in DOMAIN scene'
            /\ scene'[crop_rects'[Len(crop_rects')]].rect = Span(start_pos, pointer)
            /\ scene'[crop_rects'[Len(crop_rects')]].movable
            /\ temp_item' = NoItem ]_vars

\* C2 witness: a second region was committed by a drag that ran right-to-left.
C2_Witness ==
  /\ last = <<"release", "commit">>
  /\ Len(crop_rects) = 2
  /\ start_pos = Beyond
  /\ pointer = Corner
  /\ scene[crop_rects[2]].rect = Span(Corner, Beyond)

\* C3: an export run while crop_rects is empty reports "No crop zones", makes no
\* directory (neither output/ nor the image's own), saves no file, and changes
\* nothing else of the session or the canvas.
C3_EmptyExportWritesNothing ==
  [][ (last'[1] = "export" /\ crop_rects = <<>>)
      => /\ last'[2] = "No crop zones"
         /\ made' = {}
         /\ written' = NoFiles
         /\ UNCHANGED <<images, index, base_image, crop_rects, crop_mode, w_edit, h_edit,
                        start_pos, temp_item, scene, pointer, grab>> ]_vars

\* C3 witness: an export was refused with an image loaded and no region drawn.
C3_Witness ==
  /\ last = <<"export", "No crop zones">>
  /\ crop_rects = <<>>
  /\ base_image # NoImage
  /\ images # <<>>

\* C4 (as claimed): an open-folder that ends in "No images found" leaves the
\* image list, the index, the bitmap and the regions exactly as they were.
C4_NoImagesLeavesSessionUnchanged ==
  [][ last' = <<"open_folder", "No images found">>
      => UNCHANGED <<images, index, base_image, crop_rects>> ]_vars

\* C5: right after any load the region list is empty, however many regions were
\* committed before it; and every region in the list is an item of the current
\* scene, so none that an export reads was drawn before the last load.
C5_LoadClearsRegions ==
  /\ last[1] = "load_image" => crop_rects = <<>>
  /\ \A k \in 1 .. Len(crop_rects) :
       /\ crop_rects[k] \in DOMAIN scene
       /\ scene[crop_rects[k]].pen = "solid"
  /\ last = <<"export", "Saved">> =>
       /\ Len(crop_rects) = Cardinality(DOMAIN written)
       /\ \A f \in DOMAIN written :
            \E k \in 1 .. Len(crop_rects) : written[f].box = CropBox(scene[crop_rects[k]])

\* C5 witness: a load that cleared two committed regions.
C5_Witness ==
  /\ last[1] = "load_image"
  /\ last[3] = 2
  /\ crop_rects = <<>>

\* C6 (as claimed): an export over N >= 1 regions saves exactly N files,
\* output/<stem>/1.png .. N.png, file k holding the crop of the k-th region.
C6_ExportWritesOnePerRegion ==
  (last[1] = "export" /\ crop_rects # <<>>)
  => /\ index + 1 <= Len(images)
     /\ OutDir(Stem(images[index + 1])) \in made
     /\ DOMAIN written = { <<Stem(images[index + 1]), k>> : k \in 1 .. Len(crop_rects) }
     /\ \A k \in 1 .. Len(crop_rects) :
          written[<<Stem(images[index + 1]), k>>].box = CropBox(scene[crop_rects[k]])

\* C7 (as claimed): at most one draft exists at any time, and no draft rectangle
\* is left in the scene that is not the one being drawn.
C7_AtMostOneDraft ==
  /\ Cardinality(DraftIds) <= 1
  /\ \A id \in DraftIds : id = temp_item

\* C8 (as claimed): after a load the canvas is idle: no draft item is held.
C8_LoadClearsDraft ==
  last[1] = "load_image" => temp_item = NoItem

\* C9: normalize is idempotent, and for spin box values in [100, 4000] what it
\* returns is even and each part is the input minus its remainder mod 2 (so not
\* above the input, and less than 2 below it); (1201, 800) gives (1200, 800),
\* which is the size every file of that export is saved with.
C9_NormalizeEvenIdempotent ==
  (last = <<"export", "Saved">> /\ wh # None)
  => /\ wh[1] % 2 = 0 /\ wh[2] % 2 = 0
     /\ wh[1] <= w_edit /\ wh[2] <= h_edit
     /\ w_edit - wh[1] = w_edit % 2 /\ h_edit - wh[2] = h_edit % 2
     /\ normalize(wh[1], wh[2]) = wh
     /\ (w_edit = 1201 /\ h_edit = 800) => wh = <<1200, 800>>
     /\ \A f \in DOMAIN written : written[f].size = wh

\* C9 witness: an export that resized with width 1201 and height 800.
C9_Witness ==
  /\ last = <<"export", "Saved">>
  /\ wh # None
  /\ w_edit = 1201
  /\ h_edit = 800
  /\ written # NoFiles

\* C10 (as claimed): while crop mode is false, a pointer press, move or release
\* goes to the default handling and neither creates nor resizes a draft nor
\* appends a region.
C10_CropModeGatesDraftTool ==
  [][ (~crop_mode /\ last'[1] \in {"press", "move", "release"})
      => /\ last'[2] = "super"
         /\ crop_rects' = crop_rects
         /\ DraftRects' = DraftRects ]_vars

====
